---- MODULE Spec2Model ----
(***************************************************************************)
(* Model of src/main.rs: the bootstrap workflow (run_downloader), the      *)
(* progress channel (std::sync::mpsc channel + nwg::Notice) and the        *)
(* observer (the handle_events closure driven by the nwg dispatch loop).   *)
(*                                                                         *)
(* The external collaborators live in modules that are not part of         *)
(* src/main.rs. The probes get_jre and launcher_exist read the filesystem  *)
(* state (env_jre, env_launcher), which EnvChange may alter at any moment  *)
(* from outside the program; download_jre, extract_jre, download_launcher  *)
(* and run_launcher return a nondeterministically chosen result. Every     *)
(* call of the worker and its result are appended to the history variable  *)
(* trace.                                                                  *)
(***************************************************************************)
EXTENDS Integers, Sequences, FiniteSets, TLC

VARIABLES
    mpc,          \* position of main(): see MainPcs
    main_jre,     \* result of get_jre() at line 239
    main_launcher,\* result of launcher_exist() at line 240
    dispatching,  \* TRUE while nwg::dispatch_thread_events is pumping events
    obs,          \* position of the handle_events closure
    wpc,          \* position of the worker thread in run_downloader
    macro,        \* statements of the update!/error! expansion still to run
    mval,         \* the value the running macro sends
    jre_path,     \* the local jre_path of run_downloader
    chan,         \* the mpsc queue between send and recv
    notices,      \* NWG notices posted and not yet dispatched
    received,     \* the values recv() has returned, in order
    label,        \* text of ui.label
    progress,     \* position of ui.progress
    dialogs,      \* number of modal error dialogs shown
    closed,       \* TRUE once E::OnWindowClose was handled for the window
    sent_at_close,\* how many values the worker had sent when that happened
    launches,     \* run_launcher calls made by main (fast path)
    env_jre,      \* the filesystem holds an installed runtime
    env_launcher, \* the filesystem holds the application package
    pristine,     \* both were installed at the first start and nothing
                  \* outside this program has touched the filesystem since
    run,          \* number of the current process run
    writes,       \* filesystem-writing calls that succeeded in this run
    trace         \* history: the worker's external calls and sends, in order

vars == <<mpc, main_jre, main_launcher, dispatching, obs, wpc, macro, mval,
          jre_path, chan, notices, received, label, progress, dialogs,
          closed, sent_at_close, launches, env_jre, env_launcher, pristine,
          run, writes, trace>>

mainVars == <<mpc, main_jre, main_launcher, launches>>
uiVars == <<dispatching, obs, received, label, progress, dialogs, closed,
            sent_at_close>>
workerVars == <<wpc, macro, mval, jre_path, trace>>
chanVars == <<chan, notices>>
envVars == <<env_jre, env_launcher, pristine, run, writes>>

(* the program is started at most MaxRuns times in a row *)
MaxRuns == 2

(* EnvironmentProbe: pure checks of the filesystem *)
get_jre == IF env_jre THEN "Some" ELSE "None"
launcher_exist == IF env_launcher THEN "true" ELSE "false"

(* ---------------- signal values (the u64 sent on the channel) ---------- *)
StateExtract == 1
StateDownloadLauncher == 2
StateStarting == 3
StateCompleted == 10
StateFailed == 11

Terminal == {StateCompleted, StateFailed}

(* range(0..3) of the progress bar *)
ProgressRangeEnd == 3

(* ---------------- the two macros ---------------- *)
(* update! with its two statements in the other order *)
update_body_swapped == <<"notice", "send">>

update_body == <<"send", "notice">>
error_body == <<"send", "notice", "panic">>

(* a queue that hands out the newest value first *)
send_lifo(q, x) == <<x>> \o q

(* Sender::send on an unbounded mpsc channel: enqueue at the tail *)
send(q, x) == Append(q, x)

(* ---------------- history helpers ---------------- *)
Call(op, res) == [op |-> op, res |-> res, val |-> 0]
Sent(x) == [op |-> "send", res |-> "", val |-> x]

IsCall(e) == e.op # "send"
IsSend(e) == e.op = "send"

CallsOf(t) == SelectSeq(t, IsCall)
SentOf(t) == LET s == SelectSeq(t, IsSend) IN [i \in 1..Len(s) |-> s[i].val]

(* ---------------- Init ---------------- *)
(* the state of a freshly started process *)
ProcessStart ==
    /\ mpc = "get_jre"
    /\ main_jre = "unset"
    /\ main_launcher = "unset"
    /\ dispatching = FALSE
    /\ obs = "none"
    /\ wpc = "not_spawned"
    /\ macro = <<>>
    /\ mval = 0
    /\ jre_path = "unset"
    /\ chan = <<>>
    /\ notices = 0
    /\ received = <<>>
    /\ label = "Download JRE"
    /\ progress = 0
    /\ dialogs = 0
    /\ closed = FALSE
    /\ sent_at_close = 0
    /\ launches = <<>>
    /\ writes = 0
    /\ trace = <<>>

Init ==
    /\ ProcessStart
    /\ env_jre \in BOOLEAN
    /\ env_launcher \in BOOLEAN
    /\ pristine = (env_jre /\ env_launcher)
    /\ run = 1

(* ======================= main() ======================= *)
(* line 239: let jre = get_jre(); *)
MainGetJre ==
    /\ mpc = "get_jre"
    /\ \E r \in {get_jre} : main_jre' = r
    /\ mpc' = "launcher_exist"
    /\ UNCHANGED <<main_launcher, launches>>
    /\ UNCHANGED <<uiVars, workerVars, chanVars>>
    /\ UNCHANGED envVars

(* the fast-path test with the application probe negated *)
MainLauncherExistNegated ==
    /\ mpc = "launcher_exist"
    /\ \E r \in {launcher_exist} :
         /\ main_launcher' = r
         /\ mpc' = IF r = "false" /\ main_jre = "Some" THEN "fast_path" ELSE "build_ui"
    /\ UNCHANGED <<main_jre, launches>>
    /\ UNCHANGED <<uiVars, workerVars, chanVars>>
    /\ UNCHANGED envVars

(* the fast-path test with || in place of && *)
MainLauncherExistOr ==
    /\ mpc = "launcher_exist"
    /\ \E r \in {launcher_exist} :
         /\ main_launcher' = r
         /\ mpc' = IF r = "true" \/ main_jre = "Some" THEN "fast_path" ELSE "build_ui"
    /\ UNCHANGED <<main_jre, launches>>
    /\ UNCHANGED <<uiVars, workerVars, chanVars>>
    /\ UNCHANGED envVars

(* line 240: if launcher_exist() && jre.is_some() *)
MainLauncherExist ==
    /\ mpc = "launcher_exist"
    /\ \E r \in {launcher_exist} :
         /\ main_launcher' = r
         /\ mpc' = IF r = "true" /\ main_jre = "Some" THEN "fast_path" ELSE "build_ui"
    /\ UNCHANGED <<main_jre, launches>>
    /\ UNCHANGED <<uiVars, workerVars, chanVars>>
    /\ UNCHANGED envVars

(* a fast path that reports a failed launch with the error dialog *)
MainFastPathReports ==
    /\ mpc = "fast_path"
    /\ \E r \in {"Ok", "Err"} :
         /\ launches' = Append(launches, r)
         /\ dialogs' = IF r = "Err" THEN dialogs + 1 ELSE dialogs
    /\ mpc' = "exited"
    /\ UNCHANGED <<main_jre, main_launcher>>
    /\ UNCHANGED <<dispatching, obs, received, label, progress, closed, sent_at_close>>
    /\ UNCHANGED <<workerVars, chanVars>>
    /\ UNCHANGED envVars

(* line 241: run_launcher(jre.unwrap().as_path()); result discarded, main returns *)
MainFastPath ==
    /\ mpc = "fast_path"
    /\ \E r \in {"Ok", "Err"} : launches' = Append(launches, r)
    /\ mpc' = "exited"
    /\ UNCHANGED <<main_jre, main_launcher>>
    /\ UNCHANGED <<uiVars, workerVars, chanVars>>
    /\ UNCHANGED envVars

(* lines 243-246: init, build_ui (creates the channel, binds the handler), *)
(* then dispatch_thread_events starts pumping                              *)
MainBuildUi ==
    /\ mpc = "build_ui"
    /\ mpc' = "dispatch"
    /\ dispatching' = TRUE
    /\ obs' = "idle"
    /\ chan' = <<>>
    /\ notices' = 0
    /\ UNCHANGED <<main_jre, main_launcher, launches>>
    /\ UNCHANGED <<received, label, progress, dialogs, closed, sent_at_close>>
    /\ UNCHANGED workerVars
    /\ UNCHANGED envVars

(* line 246-247: the dispatch loop ended; main returns and the process     *)
(* exits, abandoning the worker thread wherever it is                      *)
MainReturn ==
    /\ mpc = "dispatch"
    /\ ~dispatching
    /\ obs = "idle"
    /\ mpc' = "exited"
    /\ UNCHANGED <<main_jre, main_launcher, launches>>
    /\ UNCHANGED <<uiVars, workerVars, chanVars>>
    /\ UNCHANGED envVars

(* ======================= handle_events ======================= *)
(* lines 117-121: E::OnInit spawns the worker thread *)
OnInit ==
    /\ mpc = "dispatch" /\ dispatching /\ obs = "idle"
    /\ wpc = "not_spawned"
    /\ wpc' = "get_jre"
    /\ UNCHANGED <<macro, mval, jre_path, trace>>
    /\ UNCHANGED <<mainVars, uiVars, chanVars>>
    /\ UNCHANGED envVars

(* a close handler that does not stop the dispatch loop *)
OnWindowCloseNoStop ==
    /\ mpc = "dispatch" /\ dispatching /\ obs = "idle"
    /\ wpc # "not_spawned"
    /\ closed' = TRUE
    /\ sent_at_close' = Len(SentOf(trace))
    /\ UNCHANGED <<dispatching, obs, received, label, progress, dialogs>>
    /\ UNCHANGED <<mainVars, workerVars, chanVars>>
    /\ UNCHANGED envVars

(* lines 122-126: E::OnWindowClose stops the dispatch loop *)
OnWindowClose ==
    /\ mpc = "dispatch" /\ dispatching /\ obs = "idle"
    /\ wpc # "not_spawned"
    /\ dispatching' = FALSE
    /\ closed' = TRUE
    /\ sent_at_close' = Len(SentOf(trace))
    /\ UNCHANGED <<obs, received, label, progress, dialogs>>
    /\ UNCHANGED <<mainVars, workerVars, chanVars>>
    /\ UNCHANGED envVars

Min(a, b) == IF a < b THEN a ELSE b

(* lines 129-137: the label that a received state selects *)
LabelFor(state, old) ==
    IF state = 3 THEN "Starting launcher"
    ELSE IF state = 2 THEN "Download Launcher"
    ELSE IF state = 1 THEN "Extract JRE"
    ELSE old

(* Receiver::recv: dequeue the head *)
recv(q) == [value |-> Head(q), rest |-> Tail(q)]

(* the handler with 11 treated like 10: dispatch stopped, no dialog *)
HandleNoDialog(state) ==
    /\ received' = Append(received, state)
    /\ UNCHANGED <<closed, sent_at_close>>
    /\ label' = LabelFor(state, label)
    /\ IF state = 10 \/ state = 11
         THEN /\ dispatching' = FALSE
              /\ obs' = "idle"
              /\ progress' = Min(state, ProgressRangeEnd)
              /\ dialogs' = dialogs
         ELSE /\ obs' = "idle"
              /\ progress' = Min(state, ProgressRangeEnd)
              /\ UNCHANGED <<dispatching, dialogs>>

(* lines 128-148 once recv() has a value to return *)
Handle(state) ==
    /\ received' = Append(received, state)
    /\ UNCHANGED <<closed, sent_at_close>>
    /\ label' = LabelFor(state, label)
    /\ IF state = 10
         THEN /\ dispatching' = FALSE
              /\ obs' = "idle"
              /\ progress' = Min(state, ProgressRangeEnd)
              /\ dialogs' = dialogs
         ELSE IF state = 11
         THEN /\ obs' = "dialog"
              /\ dialogs' = dialogs + 1
              /\ UNCHANGED <<dispatching, progress>>
         ELSE /\ obs' = "idle"
              /\ progress' = Min(state, ProgressRangeEnd)
              /\ UNCHANGED <<dispatching, dialogs>>

(* lines 127-149: E::OnNotice. A dispatched notice enters the handler,     *)
(* which blocks in recv() while the queue is empty (obs = "recv").         *)
OnNotice ==
    /\ mpc = "dispatch"
    /\ IF obs = "recv"
         THEN /\ chan # <<>>
              /\ notices' = notices
         ELSE /\ dispatching /\ obs = "idle"
              /\ notices > 0
              /\ notices' = notices - 1
    /\ IF chan = <<>>
         THEN /\ obs' = "recv"
              /\ UNCHANGED <<chan, dispatching, received, label, progress, dialogs, closed, sent_at_close>>
         ELSE /\ chan' = recv(chan).rest
              /\ Handle(recv(chan).value)
    /\ UNCHANGED <<mainVars, workerVars>>
    /\ UNCHANGED envVars

(* lines 141-148: the modal dialog is dismissed, modal_error_message       *)
(* returns, then stop_thread_dispatch and set_pos                          *)
DialogDismissed ==
    /\ mpc = "dispatch" /\ obs = "dialog"
    /\ obs' = "idle"
    /\ dispatching' = FALSE
    /\ progress' = Min(StateFailed, ProgressRangeEnd)
    /\ UNCHANGED <<received, label, dialogs, closed, sent_at_close>>
    /\ UNCHANGED <<mainVars, workerVars, chanVars>>
    /\ UNCHANGED envVars

(* ======================= run_downloader ======================= *)
Running(pc) == mpc = "dispatch" /\ wpc = pc /\ macro = <<>>

StartUpdate(x, next) == macro' = update_body /\ mval' = x /\ wpc' = next
StartError == macro' = error_body /\ mval' = StateFailed /\ wpc' = wpc

(* one statement of an expanded update!/error! (lines 172-185) *)
MacroStep ==
    /\ mpc = "dispatch" /\ macro # <<>>
    /\ macro' = Tail(macro)
    /\ IF Head(macro) = "send"
         THEN /\ chan' = send(chan, mval)
              /\ trace' = Append(trace, Sent(mval))
              /\ UNCHANGED <<notices, wpc>>
         ELSE IF Head(macro) = "notice"
         THEN /\ notices' = notices + 1
              /\ UNCHANGED <<chan, trace, wpc>>
         ELSE /\ wpc' = "panicked"
              /\ UNCHANGED <<chan, notices, trace>>
    /\ UNCHANGED <<mval, jre_path>>
    /\ UNCHANGED <<mainVars, uiVars>>
    /\ UNCHANGED envVars

(* a first probe that announces the skipped runtime stages *)
GetJreSignalsSkip ==
    /\ Running("get_jre")
    /\ \E r \in {get_jre} :
         /\ trace' = Append(trace, Call("get_jre", r))
         /\ IF r = "Some"
              THEN jre_path' = "Some" /\ StartUpdate(StateDownloadLauncher, "launcher_exist")
              ELSE jre_path' = jre_path /\ wpc' = "download_jre" /\ UNCHANGED <<macro, mval>>
    /\ UNCHANGED <<mainVars, uiVars, chanVars>>
    /\ UNCHANGED envVars

(* line 188: match get_jre() *)
GetJre ==
    /\ Running("get_jre")
    /\ \E r \in {get_jre} :
         /\ trace' = Append(trace, Call("get_jre", r))
         /\ IF r = "Some"
              THEN jre_path' = "Some" /\ wpc' = "launcher_exist"
              ELSE jre_path' = jre_path /\ wpc' = "download_jre"
    /\ UNCHANGED <<macro, mval>>
    /\ UNCHANGED <<mainVars, uiVars, chanVars>>
    /\ UNCHANGED envVars

(* download_jre with the two branches of the if exchanged *)
DownloadJreInverted ==
    /\ Running("download_jre")
    /\ \E r \in {"Ok", "Err"} :
         /\ writes' = IF r = "Ok" THEN writes + 1 ELSE writes
         /\ UNCHANGED <<env_jre, env_launcher, pristine, run>>
         /\ trace' = Append(trace, Call("download_jre", r))
         /\ IF r = "Ok" THEN StartError ELSE StartUpdate(StateExtract, "extract_jre")
    /\ UNCHANGED jre_path
    /\ UNCHANGED <<mainVars, uiVars, chanVars>>

(* lines 190-194 *)
DownloadJre ==
    /\ Running("download_jre")
    /\ \E r \in {"Ok", "Err"} :
         /\ writes' = IF r = "Ok" THEN writes + 1 ELSE writes
         /\ UNCHANGED <<env_jre, env_launcher, pristine, run>>
         /\ trace' = Append(trace, Call("download_jre", r))
         /\ IF r = "Err" THEN StartError ELSE StartUpdate(StateExtract, "extract_jre")
    /\ UNCHANGED jre_path
    /\ UNCHANGED <<mainVars, uiVars, chanVars>>

(* extract_jre whose success path goes on without the second get_jre() *)
ExtractJreNoReprobe ==
    /\ Running("extract_jre")
    /\ \E r \in {"Ok", "Err"} :
         /\ writes' = IF r = "Ok" THEN writes + 1 ELSE writes
         /\ env_jre' = IF r = "Ok" THEN TRUE ELSE env_jre
         /\ UNCHANGED <<env_launcher, pristine, run>>
         /\ trace' = Append(trace, Call("extract_jre", r))
         /\ IF r = "Err" THEN StartError ELSE StartUpdate(StateDownloadLauncher, "launcher_exist")
    /\ jre_path' = "Some"
    /\ UNCHANGED <<mainVars, uiVars, chanVars>>

(* lines 195-199 *)
ExtractJre ==
    /\ Running("extract_jre")
    /\ \E r \in {"Ok", "Err"} :
         /\ writes' = IF r = "Ok" THEN writes + 1 ELSE writes
         /\ env_jre' = IF r = "Ok" THEN TRUE ELSE env_jre
         /\ UNCHANGED <<env_launcher, pristine, run>>
         /\ trace' = Append(trace, Call("extract_jre", r))
         /\ IF r = "Err" THEN StartError ELSE StartUpdate(StateDownloadLauncher, "reprobe_jre")
    /\ UNCHANGED jre_path
    /\ UNCHANGED <<mainVars, uiVars, chanVars>>

(* a re-probe that goes back to the download when the runtime is absent *)
ReprobeJreRetry ==
    /\ Running("reprobe_jre")
    /\ \E r \in {get_jre} :
         /\ trace' = Append(trace, Call("get_jre", r))
         /\ IF r = "Some"
              THEN jre_path' = "Some" /\ wpc' = "launcher_exist"
              ELSE jre_path' = jre_path /\ wpc' = "download_jre"
    /\ UNCHANGED <<macro, mval>>
    /\ UNCHANGED <<mainVars, uiVars, chanVars>>
    /\ UNCHANGED envVars

(* line 200: get_jre().unwrap() panics on None, sending nothing *)
ReprobeJre ==
    /\ Running("reprobe_jre")
    /\ \E r \in {get_jre} :
         /\ trace' = Append(trace, Call("get_jre", r))
         /\ IF r = "Some"
              THEN jre_path' = "Some" /\ wpc' = "launcher_exist"
              ELSE jre_path' = jre_path /\ wpc' = "panicked"
    /\ UNCHANGED <<macro, mval>>
    /\ UNCHANGED <<mainVars, uiVars, chanVars>>
    /\ UNCHANGED envVars

(* the application check with its negation dropped *)
LauncherExistInverted ==
    /\ Running("launcher_exist")
    /\ \E r \in {launcher_exist} :
         /\ trace' = Append(trace, Call("launcher_exist", r))
         /\ wpc' = IF r = "false" THEN "starting" ELSE "download_launcher"
    /\ UNCHANGED <<macro, mval, jre_path>>
    /\ UNCHANGED <<mainVars, uiVars, chanVars>>
    /\ UNCHANGED envVars

(* line 204: if !launcher::launcher_exist() *)
LauncherExist ==
    /\ Running("launcher_exist")
    /\ \E r \in {launcher_exist} :
         /\ trace' = Append(trace, Call("launcher_exist", r))
         /\ wpc' = IF r = "true" THEN "starting" ELSE "download_launcher"
    /\ UNCHANGED <<macro, mval, jre_path>>
    /\ UNCHANGED <<mainVars, uiVars, chanVars>>
    /\ UNCHANGED envVars

(* download_launcher whose error is ignored *)
DownloadLauncherIgnoreErr ==
    /\ Running("download_launcher")
    /\ \E r \in {"Ok", "Err"} :
         /\ writes' = IF r = "Ok" THEN writes + 1 ELSE writes
         /\ env_launcher' = IF r = "Ok" THEN TRUE ELSE env_launcher
         /\ UNCHANGED <<env_jre, pristine, run>>
         /\ trace' = Append(trace, Call("download_launcher", r))
         /\ macro' = macro /\ mval' = mval /\ wpc' = "starting"
    /\ UNCHANGED jre_path
    /\ UNCHANGED <<mainVars, uiVars, chanVars>>

(* download_launcher whose success sends a value of its own *)
DownloadLauncherSignals ==
    /\ Running("download_launcher")
    /\ \E r \in {"Ok", "Err"} :
         /\ writes' = IF r = "Ok" THEN writes + 1 ELSE writes
         /\ env_launcher' = IF r = "Ok" THEN TRUE ELSE env_launcher
         /\ UNCHANGED <<env_jre, pristine, run>>
         /\ trace' = Append(trace, Call("download_launcher", r))
         /\ IF r = "Err" THEN StartError
            ELSE StartUpdate(StateDownloadLauncher, "starting")
    /\ UNCHANGED jre_path
    /\ UNCHANGED <<mainVars, uiVars, chanVars>>

(* lines 205-207 *)
DownloadLauncher ==
    /\ Running("download_launcher")
    /\ \E r \in {"Ok", "Err"} :
         /\ writes' = IF r = "Ok" THEN writes + 1 ELSE writes
         /\ env_launcher' = IF r = "Ok" THEN TRUE ELSE env_launcher
         /\ UNCHANGED <<env_jre, pristine, run>>
         /\ trace' = Append(trace, Call("download_launcher", r))
         /\ IF r = "Err" THEN StartError
            ELSE macro' = macro /\ mval' = mval /\ wpc' = "starting"
    /\ UNCHANGED jre_path
    /\ UNCHANGED <<mainVars, uiVars, chanVars>>

(* the launch step entered without the update! of line 209 *)
StartingSilent ==
    /\ Running("starting")
    /\ wpc' = "launcher_exist2"
    /\ UNCHANGED <<macro, mval, jre_path, trace>>
    /\ UNCHANGED <<mainVars, uiVars, chanVars>>
    /\ UNCHANGED envVars

(* line 209: update!(send, notice, 3) *)
Starting ==
    /\ Running("starting")
    /\ StartUpdate(StateStarting, "launcher_exist2")
    /\ UNCHANGED <<jre_path, trace>>
    /\ UNCHANGED <<mainVars, uiVars, chanVars>>
    /\ UNCHANGED envVars

(* the launch step without the else branch: launches whatever the probe says *)
LauncherExist2Unchecked ==
    /\ Running("launcher_exist2")
    /\ \E r \in {launcher_exist} :
         /\ trace' = Append(trace, Call("launcher_exist", r))
         /\ macro' = macro /\ mval' = mval /\ wpc' = "run_launcher"
    /\ UNCHANGED jre_path
    /\ UNCHANGED <<mainVars, uiVars, chanVars>>
    /\ UNCHANGED envVars

(* lines 210, 216-218 *)
LauncherExist2 ==
    /\ Running("launcher_exist2")
    /\ \E r \in {launcher_exist} :
         /\ trace' = Append(trace, Call("launcher_exist", r))
         /\ IF r = "true"
              THEN macro' = macro /\ mval' = mval /\ wpc' = "run_launcher"
              ELSE StartError
    /\ UNCHANGED jre_path
    /\ UNCHANGED <<mainVars, uiVars, chanVars>>
    /\ UNCHANGED envVars

(* lines 211-215 *)
RunLauncher ==
    /\ Running("run_launcher")
    /\ \E r \in {"Ok", "Err"} :
         /\ trace' = Append(trace, Call("run_launcher", r))
         /\ IF r = "Err" THEN StartError ELSE StartUpdate(StateCompleted, "return")
    /\ UNCHANGED jre_path
    /\ UNCHANGED <<mainVars, uiVars, chanVars>>
    /\ UNCHANGED envVars

(* line 219: the function returns and the thread ends *)
Return ==
    /\ Running("return")
    /\ wpc' = "returned"
    /\ UNCHANGED <<macro, mval, jre_path, trace>>
    /\ UNCHANGED <<mainVars, uiVars, chanVars>>
    /\ UNCHANGED envVars

(* ======================= outside the program ======================= *)
(* something other than this program installs or removes the runtime or   *)
(* the application package                                                 *)
EnvChange ==
    /\ \E j \in BOOLEAN, l \in BOOLEAN :
         /\ <<j, l>> # <<env_jre, env_launcher>>
         /\ env_jre' = j
         /\ env_launcher' = l
    /\ pristine' = FALSE
    /\ UNCHANGED <<run, writes>>
    /\ UNCHANGED <<mainVars, uiVars, workerVars, chanVars>>

(* the user starts the program again after it has exited *)
Restart ==
    /\ mpc = "exited"
    /\ run < MaxRuns
    /\ run' = run + 1
    /\ mpc' = "get_jre"
    /\ main_jre' = "unset"
    /\ main_launcher' = "unset"
    /\ dispatching' = FALSE
    /\ obs' = "none"
    /\ wpc' = "not_spawned"
    /\ macro' = <<>>
    /\ mval' = 0
    /\ jre_path' = "unset"
    /\ chan' = <<>>
    /\ notices' = 0
    /\ received' = <<>>
    /\ label' = "Download JRE"
    /\ progress' = 0
    /\ dialogs' = 0
    /\ closed' = FALSE
    /\ sent_at_close' = 0
    /\ launches' = <<>>
    /\ writes' = 0
    /\ trace' = <<>>
    /\ UNCHANGED <<env_jre, env_launcher, pristine>>

run_downloader ==
    \/ GetJre \/ DownloadJre \/ ExtractJre \/ ReprobeJre
    \/ LauncherExist \/ DownloadLauncher \/ Starting
    \/ LauncherExist2 \/ RunLauncher \/ MacroStep \/ Return

handle_events == OnInit \/ OnWindowClose \/ OnNotice \/ DialogDismissed

main == MainGetJre \/ MainLauncherExist \/ MainFastPath \/ MainBuildUi \/ MainReturn

Next == main \/ handle_events \/ run_downloader \/ EnvChange \/ Restart

Spec == Init /\ [][Next]_vars

(* The worker thread is scheduled until it ends, and the dispatch loop     *)
(* delivers every posted notice while it is running. Closing the window    *)
(* and dismissing the dialog are the user's acts: no fairness on the       *)
(* first, and the second is assumed to happen.                             *)
FairSpec ==
    /\ Spec
    /\ WF_vars(main)
    /\ WF_vars(run_downloader)
    /\ WF_vars(OnInit)
    /\ WF_vars(OnNotice)
    /\ WF_vars(DialogDismissed)

(* ---------------- derived state ---------------- *)
sent == SentOf(trace)
calls == CallsOf(trace)
WorkerEnded == wpc \in {"returned", "panicked"}
TerminalsSent == {i \in 1..Len(sent) : sent[i] \in Terminal}

Last(s) == s[Len(s)]
CallIs(i, op, res) == Len(calls) >= i /\ calls[i].op = op /\ calls[i].res = res
HasCall(op) == \E i \in 1..Len(calls) : calls[i].op = op

(* ======================= claims ======================= *)

(* C1: in every run of run_downloader at most one terminal value (10 or    *)
(* 11) is sent, nothing is sent after it, and a run that has ended has     *)
(* sent exactly one.                                                       *)
C1_ExactlyOneTerminal ==
    /\ Cardinality(TerminalsSent) <= 1
    /\ \A i \in TerminalsSent : i = Len(sent)
    /\ WorkerEnded => Cardinality(TerminalsSent) = 1

(* C2: once the worker is started, and unless the window is closed, the    *)
(* observer eventually receives a terminal value and stops dispatching.    *)
C2_TerminalReachesObserver ==
    (<>closed) \/
    ((wpc # "not_spawned") ~>
        (received # <<>> /\ Last(received) \in Terminal /\ ~dispatching))

(* C3: the values the observer has received, followed by the values still  *)
(* queued, are exactly the values sent, in order: what recv returned is a  *)
(* prefix of what was sent, nothing dropped, duplicated or reordered.      *)
C3_FifoPrefix ==
    /\ received \o chan = sent
    /\ Len(received) <= Len(sent)
    /\ \A i \in 1..Len(received) : received[i] = sent[i]

C3_Witness ==
    /\ Len(received) >= 2
    /\ chan # <<>>
    /\ received[1] # received[2]

(* C4: a payload is queued before its wake is posted and one payload is    *)
(* taken per handled wake: pending wakes never exceed queued payloads, at  *)
(* most one queued payload still lacks its wake, and the handler is never  *)
(* blocked in recv() on an empty queue.                                    *)
C4_WakeAfterPayload ==
    /\ notices <= Len(chan)
    /\ Len(chan) <= notices + 1
    /\ obs # "recv"

C4_Witness ==
    /\ received # <<>>
    /\ notices >= 1
    /\ Len(chan) = notices + 1

(* the run so far began: get_jre None, download_jre Ok, extract_jre Ok *)
FreshInstall ==
    /\ CallIs(1, "get_jre", "None")
    /\ CallIs(2, "download_jre", "Ok")
    /\ CallIs(3, "extract_jre", "Ok")

IsFetch(e) == e.op \in {"download_jre", "download_launcher"}

(* C5: when get_jre is None, download_jre and extract_jre succeed and the  *)
(* second get_jre is None again, the run ends having sent 11 (Failed) and  *)
(* without calling run_launcher.                                           *)
C5_ReprobeAbsentFails ==
    (FreshInstall /\ CallIs(4, "get_jre", "None")) =>
        /\ WorkerEnded
        /\ sent = <<StateExtract, StateDownloadLauncher, StateFailed>>
        /\ ~HasCall("run_launcher")

(* C6: after a failed fetch (download_jre or download_launcher) nothing    *)
(* follows in the run but one send of 11: no call at all, no other value;  *)
(* and when the runtime was freshly installed and download_launcher fails  *)
(* the values sent are exactly 1, 2, 11 and run_launcher is never called.  *)
C6_FetchFailureIsFatal ==
    \A i \in 1..Len(trace) :
        (IsFetch(trace[i]) /\ trace[i].res = "Err") =>
            /\ Len(trace) <= i + 1
            /\ Len(trace) = i + 1 => trace[i + 1] = Sent(StateFailed)
            /\ WorkerEnded => Len(trace) = i + 1
            /\ wpc \notin {"returned", "run_launcher", "starting", "launcher_exist2"}
            /\ ~HasCall("run_launcher")
            /\ (FreshInstall /\ trace[i].op = "download_launcher" /\ WorkerEnded) =>
                   sent = <<StateExtract, StateDownloadLauncher, StateFailed>>

C6_Witness ==
    /\ wpc = "panicked"
    /\ FreshInstall
    /\ CallIs(Len(calls), "download_launcher", "Err")
    /\ sent = <<StateExtract, StateDownloadLauncher, StateFailed>>

(* the run: runtime absent, application absent, every step succeeds *)
FullBootstrap ==
    /\ FreshInstall
    /\ CallIs(4, "get_jre", "Some")
    /\ CallIs(5, "launcher_exist", "false")
    /\ CallIs(6, "download_launcher", "Ok")
    /\ CallIs(7, "launcher_exist", "true")
    /\ CallIs(8, "run_launcher", "Ok")
    /\ wpc = "returned"

(* the same run with the application already present *)
RuntimeOnlyBootstrap ==
    /\ FreshInstall
    /\ CallIs(4, "get_jre", "Some")
    /\ CallIs(5, "launcher_exist", "true")
    /\ CallIs(6, "launcher_exist", "true")
    /\ CallIs(7, "run_launcher", "Ok")
    /\ wpc = "returned"

(* C7 as stated: the full bootstrap sends five values, FetchingRuntime,    *)
(* ExtractingRuntime, a value of its own for the fetched application,      *)
(* Launching, Completed.                                                   *)
C7_FiveSignals ==
    FullBootstrap =>
        /\ Len(sent) = 5
        /\ sent[1] = StateExtract
        /\ sent[2] = StateDownloadLauncher
        /\ sent[3] \notin {StateExtract, StateDownloadLauncher, StateStarting,
                           StateCompleted, StateFailed}
        /\ sent[4] = StateStarting
        /\ sent[5] = StateCompleted

(* C7 amended: the full bootstrap sends exactly 1, 2, 3, 10; a successful  *)
(* download_launcher sends nothing of its own, so the run with the         *)
(* application already present sends the same four values.                 *)
C7_FourSignals ==
    (FullBootstrap \/ RuntimeOnlyBootstrap) =>
        sent = <<StateExtract, StateDownloadLauncher, StateStarting, StateCompleted>>

C7_Witness ==
    /\ FullBootstrap
    /\ Len(sent) = 4
    /\ received = sent

(* C8: when the worker's get_jre is Some and its first launcher_exist is   *)
(* true, no download or extract call is made and the values sent are 3     *)
(* followed by one terminal value: 10 if run_launcher succeeded, 11 if not.*)
C8_BothPresent ==
    (CallIs(1, "get_jre", "Some") /\ CallIs(2, "launcher_exist", "true")) =>
        /\ \A i \in 1..Len(calls) :
               calls[i].op \notin {"download_jre", "extract_jre", "download_launcher"}
        /\ Len(sent) >= 1 => sent[1] = StateStarting
        /\ Len(sent) <= 2
        /\ Len(sent) = 2 => sent[2] \in Terminal
        /\ WorkerEnded =>
               /\ Len(sent) = 2
               /\ sent[2] = StateCompleted <=> CallIs(Len(calls), "run_launcher", "Ok")

C8_Witness ==
    /\ CallIs(1, "get_jre", "Some")
    /\ CallIs(2, "launcher_exist", "true")
    /\ CallIs(4, "run_launcher", "Err")
    /\ wpc = "panicked"
    /\ sent = <<StateStarting, StateFailed>>

(* C9: after get_jre None, download_jre Ok and extract_jre Ok the next     *)
(* call is get_jre again, and when it returns Some the worker stands at    *)
(* the application check holding a jre_path, having sent exactly 1, 2.     *)
C9_ReprobePresentContinues ==
    FreshInstall =>
        /\ Len(calls) >= 4 => calls[4].op = "get_jre"
        /\ Len(calls) = 3 => wpc = "reprobe_jre"
        /\ (Len(calls) = 4 /\ calls[4].res = "Some") =>
               /\ wpc = "launcher_exist"
               /\ jre_path = "Some"
               /\ sent = <<StateExtract, StateDownloadLauncher>>

C9_Witness ==
    /\ FreshInstall
    /\ Len(calls) = 4
    /\ CallIs(4, "get_jre", "Some")
    /\ wpc = "launcher_exist"

(* C10: run_launcher is called only right after the launch step's          *)
(* launcher_exist returned true, with a jre_path in hand; when that probe  *)
(* returns false, also after a successful download_launcher, 11 is sent    *)
(* and the run ends without run_launcher. A failed run_launcher is         *)
(* followed by 11 and a successful one by 10.                              *)
C10_LaunchOnlyWhenPresent ==
    \A i \in 1..Len(trace) :
        /\ trace[i] = Sent(StateStarting) =>
               /\ Len(trace) > i => trace[i + 1].op = "launcher_exist"
               /\ (Len(trace) > i /\ trace[i + 1].res = "false") =>
                      /\ Len(trace) <= i + 2
                      /\ Len(trace) = i + 2 => trace[i + 2] = Sent(StateFailed)
                      /\ WorkerEnded => Len(trace) = i + 2
                      /\ wpc # "returned"
        /\ trace[i].op = "run_launcher" =>
               /\ i > 2
               /\ trace[i - 1] = Call("launcher_exist", "true")
               /\ trace[i - 2] = Sent(StateStarting)
               /\ jre_path = "Some"
               /\ Len(trace) <= i + 1
               /\ Len(trace) = i + 1 =>
                      trace[i + 1] = Sent(IF trace[i].res = "Ok" THEN StateCompleted
                                                                ELSE StateFailed)
               /\ WorkerEnded => Len(trace) = i + 1

C10_Witness ==
    /\ wpc = "panicked"
    /\ HasCall("download_launcher")
    /\ CallIs(Len(calls), "launcher_exist", "false")
    /\ Last(sent) = StateFailed
    /\ Last(trace) = Sent(StateFailed)

(* positions of the sends of x in the trace *)
SendsOf(x) == {i \in 1..Len(trace) : trace[i] = Sent(x)}

(* the application check has resolved: the first launcher_exist returned   *)
(* true, or it returned false and download_launcher succeeded              *)
AppResolved ==
    \E i \in 1..Len(calls) :
        /\ calls[i].op = "launcher_exist"
        /\ \A j \in 1..(i - 1) : calls[j].op # "launcher_exist"
        /\ \/ calls[i].res = "true"
           \/ CallIs(i + 1, "download_launcher", "Ok")

(* C11: 3 (Launching) is sent at most once and only once the application   *)
(* check has resolved; every run that resolved it and ended has sent it    *)
(* exactly once; and the launch step's launcher_exist and run_launcher     *)
(* come only after it.                                                     *)
C11_LaunchingBeforeLaunch ==
    /\ Cardinality(SendsOf(StateStarting)) <= 1
    /\ SendsOf(StateStarting) # {} => AppResolved
    /\ (AppResolved /\ WorkerEnded) => Cardinality(SendsOf(StateStarting)) = 1
    /\ \A i \in 1..Len(trace) :
           trace[i].op = "run_launcher" =>
               \E j \in SendsOf(StateStarting) : j < i
    /\ wpc = "run_launcher" => SendsOf(StateStarting) # {}

C11_Witness ==
    /\ wpc = "returned"
    /\ HasCall("download_launcher")
    /\ HasCall("run_launcher")
    /\ Cardinality(SendsOf(StateStarting)) = 1

(* main's two probes both reported present *)
MainBothPresent == main_jre = "Some" /\ main_launcher = "true"

(* C12: when main's get_jre and launcher_exist both report present the     *)
(* process calls run_launcher directly, never builds the UI, never spawns  *)
(* the worker and nothing is ever sent; otherwise it never launches from   *)
(* main, builds the UI and spawns the worker.                              *)
C12_FastPath ==
    /\ MainBothPresent =>
           /\ mpc \in {"fast_path", "exited"}
           /\ obs = "none" /\ ~dispatching
           /\ wpc = "not_spawned"
           /\ trace = <<>> /\ chan = <<>> /\ notices = 0 /\ received = <<>>
           /\ mpc = "exited" <=> Len(launches) = 1
    /\ (main_launcher # "unset" /\ ~MainBothPresent) =>
           /\ mpc \in {"build_ui", "dispatch", "exited"}
           /\ launches = <<>>
           /\ mpc # "build_ui" => obs # "none"
           /\ mpc = "exited" => wpc # "not_spawned"
    /\ launches # <<>> => MainBothPresent

C12_Witness ==
    /\ MainBothPresent
    /\ mpc = "exited"
    /\ Len(launches) = 1

(* C13: started with runtime and application installed, and with nothing   *)
(* outside the program touching the filesystem, every run (the first and   *)
(* the one after it) makes no download or extract call, writes nothing,    *)
(* leaves both installed and ends by launching from main.                  *)
C13_InstalledRunIsIdempotent ==
    pristine =>
        /\ env_jre /\ env_launcher
        /\ writes = 0
        /\ trace = <<>>
        /\ wpc = "not_spawned"
        /\ mpc \in {"get_jre", "launcher_exist", "fast_path", "exited"}
        /\ mpc = "exited" <=> Len(launches) = 1

C13_Witness ==
    /\ pristine
    /\ run = 2
    /\ mpc = "exited"
    /\ Len(launches) = 1
    /\ writes = 0

ReceivedTerminal == \E i \in 1..Len(received) : received[i] \in Terminal
ReceivedFailed == \E i \in 1..Len(received) : received[i] = StateFailed

(* C14: on receiving 11 the observer shows the error dialog and stops      *)
(* dispatching only after it; on receiving 10 it stops dispatching with no *)
(* dialog; on any other value it neither shows a dialog nor stops.         *)
C14_DialogThenStop ==
    /\ [](/\ dialogs = (IF ReceivedFailed THEN 1 ELSE 0)
          /\ obs = "dialog" => (dispatching /\ Last(received) = StateFailed)
          /\ ReceivedTerminal => (~dispatching \/ obs = "dialog")
          /\ (obs # "none" /\ ~ReceivedTerminal) => (dispatching \/ closed))
    /\ [][(dispatching /\ ~dispatching' /\ ~closed') =>
             \/ Last(received') = StateCompleted /\ dialogs' = 0
             \/ obs = "dialog" /\ dialogs = 1 /\ Last(received) = StateFailed]_vars

C14_Witness ==
    /\ received # <<>>
    /\ Last(received) = StateFailed
    /\ dialogs = 1
    /\ obs = "idle"
    /\ ~dispatching

(* C15: 1 is sent only right after download_jre returned Ok and before     *)
(* extract_jre is called, 2 only right after extract_jre returned Ok and   *)
(* before the second get_jre; a call that returned Err is followed by 11   *)
(* and by no stage value.                                                  *)
C15_SignalAfterStage ==
    \A i \in 1..Len(trace) :
        /\ trace[i] = Sent(StateExtract) =>
               /\ i > 1 /\ trace[i - 1] = Call("download_jre", "Ok")
               /\ Len(trace) > i => trace[i + 1].op = "extract_jre"
        /\ trace[i] = Sent(StateDownloadLauncher) =>
               /\ i > 1 /\ trace[i - 1] = Call("extract_jre", "Ok")
               /\ Len(trace) > i => trace[i + 1].op = "get_jre"
        /\ (trace[i] = Call("download_jre", "Ok") /\ Len(trace) > i) =>
               trace[i + 1] = Sent(StateExtract)
        /\ (trace[i] = Call("extract_jre", "Ok") /\ Len(trace) > i) =>
               trace[i + 1] = Sent(StateDownloadLauncher)
        /\ (trace[i].res = "Err" /\ Len(trace) > i) =>
               trace[i + 1] = Sent(StateFailed)

C15_Witness ==
    /\ Len(trace) >= 5
    /\ trace[1] = Call("get_jre", "None")
    /\ trace[2] = Call("download_jre", "Ok")
    /\ trace[3] = Sent(StateExtract)
    /\ trace[4] = Call("extract_jre", "Ok")
    /\ trace[5] = Sent(StateDownloadLauncher)

CountCalls(op) == Cardinality({i \in 1..Len(calls) : calls[i].op = op})

(* the stage of the workflow that the i-th call belongs to *)
StageOf(i) ==
    LET op == calls[i].op IN
    IF op = "get_jre" THEN (IF i = 1 THEN 1 ELSE 4)
    ELSE IF op = "download_jre" THEN 2
    ELSE IF op = "extract_jre" THEN 3
    ELSE IF op = "launcher_exist"
         THEN (IF \E j \in 1..(i - 1) : calls[j].op = "launcher_exist" THEN 7 ELSE 5)
    ELSE IF op = "download_launcher" THEN 6
    ELSE 8

(* C16: the calls of one run go strictly forward through the stages, so    *)
(* download_jre, extract_jre, download_launcher and run_launcher are each  *)
(* called at most once and get_jre at most twice, the second time only     *)
(* right after a successful extract_jre; a failed call is the last call;   *)
(* and a started worker always comes to an end.                            *)
C16_ForwardOnly ==
    /\ [](/\ \A i \in 1..Len(calls) : \A j \in 1..Len(calls) :
                 i < j => StageOf(i) < StageOf(j)
          /\ \A op \in {"download_jre", "extract_jre", "download_launcher", "run_launcher"} :
                 CountCalls(op) <= 1
          /\ CountCalls("get_jre") <= 2
          /\ \A i \in 2..Len(calls) :
                 calls[i].op = "get_jre" => (i = 4 /\ calls[3] = Call("extract_jre", "Ok"))
          /\ \A i \in 1..Len(calls) : calls[i].res = "Err" => i = Len(calls))
    /\ (wpc # "not_spawned") ~> (WorkerEnded \/ mpc = "exited")

C16_Witness ==
    /\ wpc = "returned"
    /\ Len(calls) = 8
    /\ CountCalls("get_jre") = 2
    /\ CountCalls("launcher_exist") = 2
    /\ \A i \in 1..8 : StageOf(i) = i

(* C17: when the worker's first get_jre returns Some, the next thing in    *)
(* the run is the application check: download_jre and extract_jre are      *)
(* never called, get_jre is not called again, and neither 1 nor 2 nor any  *)
(* other value is sent for the skip.                                       *)
C17_RuntimePresentSkips ==
    CallIs(1, "get_jre", "Some") =>
        /\ ~HasCall("download_jre") /\ ~HasCall("extract_jre")
        /\ CountCalls("get_jre") = 1
        /\ SendsOf(StateExtract) = {} /\ SendsOf(StateDownloadLauncher) = {}
        /\ Len(trace) >= 2 => trace[2].op = "launcher_exist"
        /\ Len(trace) = 1 =>
               (wpc = "launcher_exist" /\ macro = <<>> /\ jre_path = "Some")

C17_Witness ==
    /\ CallIs(1, "get_jre", "Some")
    /\ CallIs(2, "launcher_exist", "false")
    /\ CallIs(3, "download_launcher", "Ok")
    /\ wpc = "returned"
    /\ sent = <<StateStarting, StateCompleted>>

(* C18: a worker that has sent 11 (Failed) ends by returning from          *)
(* run_downloader, never by a panic; and a worker that ended by a panic    *)
(* had sent 11 before.                                                     *)
C18_FailedThenNormalReturn ==
    /\ (WorkerEnded /\ SendsOf(StateFailed) # {}) => wpc = "returned"
    /\ wpc = "panicked" => SendsOf(StateFailed) # {}
    /\ SendsOf(StateFailed) # {} => wpc # "panicked"

IsPrefix(s, t) == Len(s) <= Len(t) /\ \A i \in 1..Len(s) : s[i] = t[i]

(* C19: while the process lives, a pending send or notice of the worker    *)
(* can always be taken, however many values are queued and whether or not  *)
(* the observer still dispatches; such a step never ends the worker; the   *)
(* worker is never stopped by the window close; and once the window is     *)
(* closed the observer receives nothing more and shows nothing more.       *)
C19_WorkerNeverBlocks ==
    /\ []((mpc = "dispatch" /\ macro # <<>>) => ENABLED MacroStep)
    /\ []((mpc = "dispatch" /\ wpc \notin {"not_spawned", "returned", "panicked"}) =>
              ENABLED run_downloader)
    /\ [][(mpc = "dispatch" /\ mpc' = "dispatch" /\ macro # <<>>
             /\ Head(macro) \in {"send", "notice"}) => wpc' = wpc]_vars
    /\ [][(closed /\ closed') =>
             /\ received' = received /\ label' = label
             /\ progress' = progress /\ dialogs' = dialogs
             /\ IsPrefix(chan, chan') /\ notices' >= notices]_vars

C19_Witness ==
    /\ closed
    /\ mpc = "dispatch"
    /\ wpc = "returned"
    /\ Len(sent) >= sent_at_close + 2
    /\ Len(chan) >= 3
    /\ notices >= 3

(* C20: a run_launcher called from main leaves no trace whatever its       *)
(* result: nothing is sent, nothing received, no dialog, and the process   *)
(* has exited; a run_launcher that fails in the worker is followed by 11   *)
(* and, once the observer has received it, by the error dialog, while one  *)
(* that succeeds is followed by 10 and never by a dialog.                  *)
C20_FastPathDiscardsResult ==
    /\ launches # <<>> =>
           /\ mpc = "exited"
           /\ trace = <<>> /\ chan = <<>> /\ notices = 0
           /\ received = <<>> /\ dialogs = 0 /\ obs = "none"
    /\ \A i \in 1..Len(calls) :
           (calls[i].op = "run_launcher" /\ WorkerEnded) =>
               IF calls[i].res = "Err"
                 THEN /\ Last(sent) = StateFailed
                      /\ wpc = "panicked"
                      /\ received = sent => (dialogs = 1 /\ Last(received) = StateFailed)
                 ELSE /\ Last(sent) = StateCompleted
                      /\ wpc = "returned"
                      /\ dialogs = 0

C20_Witness ==
    /\ launches = <<"Err">>
    /\ mpc = "exited"
    /\ dialogs = 0
    /\ trace = <<>>

====
